---- MODULE Spec2Model ----
(***************************************************************************)
(* A model of rpa-core-lib: the Chrome driver manager (browser.py), the    *)
(* logger registry (logger.py) and the tabular data facade (data.py).      *)
(* The three facades do not call each other; each has its own              *)
(* specification over the shared state vector: SpecBrowser, SpecLogger,    *)
(* SpecKeys (the logger registry driven with long names), SpecLevels       *)
(* (set_level), SpecRace (get_logger called from threads), SpecRotate      *)
(* (the rotating file sink), SpecCast (convert_dtype), SpecSave            *)
(* (save_with_timestamp), SpecWrite (the writers and output_dir) and       *)
(* SpecRoundTrip (a writer followed by the reader of its format).          *)
(***************************************************************************)
EXTENDS Integers, Sequences, FiniteSets, TLC

VARIABLES
    \* ---- BrowserManager (browser.py) ----
    driver,        \* self.driver: None or the handle of a launched process
    wait,          \* self.wait: None or the WebDriverWait bound to a handle
    running,       \* handles of the external browser processes still alive
    nextHandle,    \* the handle the next successful launch gets
    page,          \* handle -> url last loaded by driver.get
    bOp,           \* the BrowserManager method that ran last
    bResult,       \* what that call returned (None when it raised)
    bRaised,       \* whether that call raised to its caller
    bDriverErr,    \* whether the Selenium call that call made failed
    bLaunches,     \* driver-process launches that call attempted
    bQuits,        \* driver.quit() calls that call made
    \* ---- logging module + RPALogger + LoggerFactory (logger.py) ----
    pyLoggers,     \* logging.getLogger registry: name -> [level, handlers]
    objs,          \* RPALogger instances by identity: id -> attributes
    cache,         \* LoggerFactory._loggers: key -> instance id
    lOp,           \* the logger operation that ran last
    lKw,           \* the keyword options it was called with
    lArgs,         \* <<instance, level>> of the last set_level call, else None
    lResult,       \* the instance it returned
    lBuilt,        \* RPALogger instances that call constructed
    served,        \* (name, context) -> instance first returned since clear
    \* ---- DataHandler (data.py) ----
    df,            \* the caller's dataset
    mapping,       \* the dtype_mapping argument, in dict order
    dOut,          \* the dataset convert_dtype returned
    dPrinted,      \* the columns convert_dtype reported a failure for
    dRaised,       \* whether the last DataHandler call raised
    dOp,           \* the DataHandler method that ran last
    sArgs,         \* arguments of the last save_with_timestamp
    sPath,         \* the path the last save returned
    sWriter,       \* the writer method the last save dispatched to
    files,         \* file names present under output_dir
    dirExists,     \* whether output_dir exists on disk
    docs,          \* file name under output_dir -> the document written to it
    dRead,         \* what the last read_* call returned
    \* ---- threads calling LoggerFactory.get_logger (logger.py) ----
    threads,       \* thread -> its position in get_logger and its locals
    stores,        \* the assignments to _loggers made so far, in order
    \* ---- the file sink of one RPALogger (logger.py) ----
    rMax,          \* maxBytes the file handler was given (None: no handler)
    rCount,        \* backupCount the file handler was given
    rActive,       \* size in bytes of the active log file
    rRing,         \* backup index i -> size of <log_file>.i, where it exists
    rOp,           \* what acted last on the file sink
    rLen           \* length of the record the last emit wrote

bvars == <<driver, wait, running, nextHandle, page, bOp, bResult, bRaised,
           bDriverErr, bLaunches, bQuits>>
lvars == <<pyLoggers, objs, cache, lOp, lKw, lArgs, lResult, lBuilt, served>>
dvars == <<df, mapping, dOut, dPrinted, dRaised, dOp, sArgs, sPath, sWriter,
           files, dirExists, docs, dRead>>
tvars == <<threads, stores>>
rvars == <<rMax, rCount, rActive, rRing, rOp, rLen>>
vars == <<bvars, lvars, dvars, tvars, rvars>>

\* Python's None, and a present value; Val unwraps it
None == << >>
Some(x) == <<x>>
Val(o) == o[1]

(***************************************************************************)
(* BrowserManager                                                          *)
(***************************************************************************)

\* Bound: driver processes one manager launches successfully in a run.
MaxLaunches == 3

DEFAULT_WAIT_TIME == 10

Urls == {"u1", "u2"}

\* BrowserManager.__init__: no driver, no wait
BrowserInit ==
    /\ driver = None
    /\ wait = None
    /\ running = {}
    /\ nextHandle = 1
    /\ page = << >>
    /\ bOp = "init"
    /\ bResult = None
    /\ bRaised = FALSE
    /\ bDriverErr = FALSE
    /\ bLaunches = 0
    /\ bQuits = 0

\* WebDriverWait(self.driver, self.wait_time)
WebDriverWait(h, timeout) == [driver |-> h, timeout |-> timeout]

\* a failed launch that leaves a handle behind
LaunchFailedBroken ==
    /\ nextHandle <= MaxLaunches
    /\ driver' = Some(nextHandle)
    /\ wait' = None
    /\ nextHandle' = nextHandle + 1
    /\ page' = page @@ (nextHandle :> None)
    /\ UNCHANGED running
    /\ bResult' = None
    /\ bDriverErr' = TRUE
    /\ bRaised' = TRUE

\* get_driver, webdriver.Chrome(...) or ChromeDriverManager().install()
\* raising: nothing was assigned, the except clause logs and re-raises
LaunchFailed ==
    /\ UNCHANGED <<driver, wait, running, nextHandle, page>>
    /\ bResult' = None
    /\ bDriverErr' = TRUE
    /\ bRaised' = TRUE

\* get_driver, webdriver.Chrome(...) returning a new process
LaunchOk ==
    /\ nextHandle <= MaxLaunches
    /\ driver' = Some(nextHandle)
    /\ wait' = Some(WebDriverWait(nextHandle, DEFAULT_WAIT_TIME))
    /\ running' = running \cup {nextHandle}
    /\ nextHandle' = nextHandle + 1
    /\ page' = page @@ (nextHandle :> None)
    /\ bResult' = Some(nextHandle)
    /\ bDriverErr' = FALSE
    /\ bRaised' = FALSE

\* get_driver without the "if self.driver is None" test
get_driver_always(ok) ==
    /\ bOp' = "get_driver"
    /\ bQuits' = 0
    /\ bLaunches' = 1
    /\ IF ok THEN LaunchOk ELSE LaunchFailed

\* BrowserManager.get_driver
get_driver(ok) ==
    /\ bOp' = "get_driver"
    /\ bQuits' = 0
    /\ IF driver = None
       THEN /\ bLaunches' = 1
            /\ IF ok THEN LaunchOk ELSE LaunchFailed
       ELSE /\ bLaunches' = 0
            /\ bResult' = driver
            /\ bDriverErr' = FALSE
            /\ bRaised' = FALSE
            /\ UNCHANGED <<driver, wait, running, nextHandle, page>>

\* close_driver without the "if self.driver" test: quit() is called on
\* whatever self.driver holds
close_driver_unguarded(ok, dies) ==
    /\ bOp' = "close_driver"
    /\ bLaunches' = 0
    /\ bResult' = None
    /\ bRaised' = FALSE
    /\ bQuits' = 1
    /\ bDriverErr' = (driver = None \/ ~ok)
    /\ IF driver # None /\ ok
       THEN /\ driver' = None
            /\ wait' = None
            /\ running' = running \ {Val(driver)}
       ELSE UNCHANGED <<driver, wait, running>>
    /\ UNCHANGED <<nextHandle, page>>

\* BrowserManager.close_driver. driver.quit() either returns (the process is
\* gone) or raises; when it raises the process may or may not have died, the
\* except clause logs, and the two assignments after quit() are skipped.
close_driver(ok, dies) ==
    /\ bOp' = "close_driver"
    /\ bLaunches' = 0
    /\ bResult' = None
    /\ bRaised' = FALSE
    /\ IF driver # None
       THEN /\ bQuits' = 1
            /\ bDriverErr' = ~ok
            /\ IF ok
               THEN /\ driver' = None
                    /\ wait' = None
                    /\ running' = running \ {Val(driver)}
               ELSE /\ UNCHANGED <<driver, wait>>
                    /\ running' = IF dies THEN running \ {Val(driver)}
                                  ELSE running
       ELSE /\ bQuits' = 0
            /\ bDriverErr' = FALSE
            /\ UNCHANGED <<driver, wait, running>>
    /\ UNCHANGED <<nextHandle, page>>

\* BrowserManager.navigate. self.driver.get(url) raises AttributeError when
\* driver is None, fails when the process is gone, and may fail otherwise;
\* the except clause logs and re-raises.
navigate(url, ok) ==
    /\ bOp' = "navigate"
    /\ bLaunches' = 0
    /\ bQuits' = 0
    /\ bResult' = None
    /\ IF driver # None /\ Val(driver) \in running /\ ok
       THEN /\ page' = [page EXCEPT ![Val(driver)] = Some(url)]
            /\ bDriverErr' = FALSE
            /\ bRaised' = FALSE
       ELSE /\ page' = page
            /\ bDriverErr' = TRUE
            /\ bRaised' = TRUE
    /\ UNCHANGED <<driver, wait, running, nextHandle>>

\* a variant of WaitUntil that starts a session when none is held
WaitUntilLazy(op, found) ==
    /\ bOp' = op
    /\ bQuits' = 0
    /\ page' = page
    /\ IF driver = None
       THEN /\ driver' = Some(nextHandle)
            /\ wait' = Some(WebDriverWait(nextHandle, DEFAULT_WAIT_TIME))
            /\ running' = running \cup {nextHandle}
            /\ nextHandle' = nextHandle + 1
            /\ bLaunches' = 1
            /\ bResult' = Some("element")
            /\ bDriverErr' = FALSE
            /\ bRaised' = FALSE
       ELSE /\ bLaunches' = 0
            /\ bResult' = IF Val(driver) \in running /\ found
                          THEN Some("element") ELSE None
            /\ bDriverErr' = (Val(driver) \notin running)
            /\ bRaised' = ~(Val(driver) \in running /\ found)
            /\ UNCHANGED <<driver, wait, running, nextHandle>>

\* WebDriverWait(self.driver, timeout).until(condition): a local wait object
\* over self.driver; with no driver the condition's call on None raises, with
\* a dead driver the command raises, otherwise found or TimeoutException
WaitUntil(op, found) ==
    /\ bOp' = op
    /\ bLaunches' = 0
    /\ bQuits' = 0
    /\ page' = page
    /\ IF driver # None /\ Val(driver) \in running /\ found
       THEN /\ bResult' = Some("element")
            /\ bDriverErr' = FALSE
            /\ bRaised' = FALSE
       ELSE /\ bResult' = None
            /\ bDriverErr' = (driver = None \/ Val(driver) \notin running)
            /\ bRaised' = TRUE
    /\ UNCHANGED <<driver, wait, running, nextHandle>>

wait_element(found) == WaitUntil("wait_element", found)

wait_element_clickable(found) == WaitUntil("wait_element_clickable", found)

\* self.driver.current_url / self.driver.page_source: attribute access on
\* self.driver, raising when it is None or the process is gone
ReadDriver(op) ==
    /\ bOp' = op
    /\ bLaunches' = 0
    /\ bQuits' = 0
    /\ page' = page
    /\ IF driver # None /\ Val(driver) \in running
       THEN /\ bResult' = page[Val(driver)]
            /\ bDriverErr' = FALSE
            /\ bRaised' = FALSE
       ELSE /\ bResult' = None
            /\ bDriverErr' = TRUE
            /\ bRaised' = TRUE
    /\ UNCHANGED <<driver, wait, running, nextHandle>>

get_current_url == ReadDriver("get_current_url")

get_page_source == ReadDriver("get_page_source")

(***************************************************************************)
(* logging, RPALogger, LoggerFactory                                       *)
(***************************************************************************)

\* Bound: RPALogger instances constructed in a run.
MaxInstances == 2

\* Bound: length of the logger names SpecKeys requests.
MaxNameLen == 3

\* logging.INFO
DEFAULT_LEVEL == 20

\* record levels: DEBUG, INFO, ERROR
Levels == {10, 20, 40}

Alphabet == {"a", "_"}

RECURSIVE StrOfLen(_)
StrOfLen(n) ==
    IF n = 0 THEN {""} ELSE {s \o c : s \in StrOfLen(n - 1), c \in Alphabet}

\* logger names of SpecLogger, and the longer ones of SpecKeys (a letter
\* first, then letters and underscores)
ShortNames == {"a", "b"}
LongNames ==
    {s \in UNION {StrOfLen(n) : n \in 1..MaxNameLen} : SubSeq(s, 1, 1) # "_"}

\* the context argument: omitted, empty, or a word
ShortContexts == {None, Some("x")}
LongContexts == {None, Some(""), Some("a")}

\* **kwargs of get_logger / RPALogger: level is None or a number
KwDefault ==
    [level |-> None, format_type |-> "detailed",
     enable_file |-> TRUE, enable_console |-> TRUE]
KwDebugConsole ==
    [level |-> Some(10), format_type |-> "simple",
     enable_file |-> FALSE, enable_console |-> TRUE]
KwFileOnly ==
    [level |-> Some(0), format_type |-> "detailed",
     enable_file |-> TRUE, enable_console |-> FALSE]
KwNoSinks ==
    [level |-> Some(10), format_type |-> "detailed",
     enable_file |-> FALSE, enable_console |-> FALSE]
Kwargs == {KwDefault, KwDebugConsole, KwFileOnly, KwNoSinks}

\* Python truthiness of an optional string, and of an optional number
TruthyStr(o) == o # None /\ Val(o) # ""
TruthyNum(o) == o # None /\ Val(o) # 0

\* LoggerFactory._loggers = {}; the logging registry holds no logger yet
LoggerInit ==
    /\ pyLoggers = << >>
    /\ objs = << >>
    /\ cache = << >>
    /\ lOp = "init"
    /\ lKw = KwDefault
    /\ lArgs = None
    /\ lResult = None
    /\ lBuilt = 0
    /\ served = << >>

\* logging.getLogger(name): the logger registered under name, created
\* with level NOTSET and no handlers on first use
getLogger(reg, name) ==
    IF name \in DOMAIN reg THEN reg[name]
    ELSE [level |-> 0, handlers |-> << >>]

\* __init__ without the handlers.clear()
KeepHandlers(hs) == hs

\* RPALogger.__init__: if self.logger.handlers: self.logger.handlers.clear()
ClearHandlers(hs) == IF hs # << >> THEN << >> ELSE hs

\* logging.StreamHandler() with the instance's level and formatter
ConsoleHandler(id, level, fmt) ==
    [kind |-> "console", level |-> level, format |-> fmt, owner |-> id]

\* logging.handlers.RotatingFileHandler with the instance's level and formatter
FileHandler(id, level, fmt) ==
    [kind |-> "file", level |-> level, format |-> fmt, owner |-> id]

\* the attributes RPALogger.__init__ stores
NewRPALogger(name, kw) ==
    [name |-> name,
     level |-> IF TruthyNum(kw.level) THEN Val(kw.level) ELSE DEFAULT_LEVEL,
     format_type |-> kw.format_type,
     enable_file |-> kw.enable_file,
     enable_console |-> kw.enable_console]

\* a construction that leaves an already registered logger as it is
ConfigureOnce(reg, id, name, kw) ==
    LET o == NewRPALogger(name, kw)
        withConsole ==
            IF o.enable_console
            THEN <<ConsoleHandler(id, o.level, o.format_type)>>
            ELSE << >>
        withFile ==
            IF o.enable_file
            THEN Append(withConsole, FileHandler(id, o.level, o.format_type))
            ELSE withConsole
    IN  IF name \in DOMAIN reg THEN reg
        ELSE reg @@ (name :> [level |-> o.level, handlers |-> withFile])

\* RPALogger.__init__ acting on the logging registry: setLevel, clear the
\* handlers, then add the console handler and the file handler
Configure(reg, id, name, kw) ==
    LET o == NewRPALogger(name, kw)
        cleared == ClearHandlers(getLogger(reg, name).handlers)
        withConsole ==
            IF o.enable_console
            THEN Append(cleared, ConsoleHandler(id, o.level, o.format_type))
            ELSE cleared
        withFile ==
            IF o.enable_file
            THEN Append(withConsole, FileHandler(id, o.level, o.format_type))
            ELSE withConsole
        lg == [level |-> o.level, handlers |-> withFile]
    IN  IF name \in DOMAIN reg THEN [reg EXCEPT ![name] = lg]
        ELSE reg @@ (name :> lg)

\* logger_key = f"{name}_{context}" if context else name
LoggerKey(name, context) ==
    IF TruthyStr(context) THEN name \o "_" \o Val(context) ELSE name

\* a cache test that never hits
NeverCached(key) == FALSE

\* logger_key in LoggerFactory._loggers
Cached(key) == key \in DOMAIN cache

\* the first instance returned for each (name, context) since the last clear
Serve(name, context, id) ==
    IF <<name, context>> \in DOMAIN served THEN served
    ELSE served @@ (<<name, context>> :> id)

\* get_logger that re-runs the configuration with the new options on a hit
get_logger_reconfigure(name, context, kw) ==
    LET key == LoggerKey(name, context)
        hit == Cached(key)
        id == IF hit THEN cache[key] ELSE Len(objs) + 1
    IN  /\ hit \/ Len(objs) < MaxInstances
        /\ lOp' = "get_logger"
        /\ lKw' = kw
        /\ lArgs' = None
        /\ lBuilt' = IF hit THEN 0 ELSE 1
        /\ objs' = IF hit THEN [objs EXCEPT ![id] = NewRPALogger(name, kw)]
                   ELSE Append(objs, NewRPALogger(name, kw))
        /\ pyLoggers' = Configure(pyLoggers, id, name, kw)
        /\ cache' = IF hit THEN cache ELSE cache @@ (key :> id)
        /\ lResult' = Some(id)
        /\ served' = Serve(name, context, id)

\* LoggerFactory.get_logger
get_logger(name, context, kw) ==
    LET key == LoggerKey(name, context)
    IN  /\ lOp' = "get_logger"
        /\ lKw' = kw
        /\ lArgs' = None
        /\ IF ~Cached(key)
           THEN LET id == Len(objs) + 1
                IN  /\ Len(objs) < MaxInstances
                    /\ lBuilt' = 1
                    /\ objs' = Append(objs, NewRPALogger(name, kw))
                    /\ pyLoggers' = Configure(pyLoggers, id, name, kw)
                    /\ cache' = (key :> id) @@ cache
                    /\ lResult' = Some(id)
                    /\ served' = Serve(name, context, id)
           ELSE /\ lBuilt' = 0
                /\ UNCHANGED <<objs, pyLoggers, cache>>
                /\ lResult' = Some(cache[key])
                /\ served' = Serve(name, context, cache[key])

\* LoggerFactory.clear_cache: the instances and the logging registry stay
clear_cache ==
    /\ lOp' = "clear_cache"
    /\ cache' = << >>
    /\ served' = << >>
    /\ lBuilt' = 0
    /\ lResult' = None
    /\ lArgs' = None
    /\ UNCHANGED <<objs, pyLoggers, lKw>>

\* get_rpa_logger: a new RPALogger, not cached
get_rpa_logger(name, kw) ==
    LET id == Len(objs) + 1
    IN  /\ Len(objs) < MaxInstances
        /\ lOp' = "get_rpa_logger"
        /\ lKw' = kw
        /\ lArgs' = None
        /\ lBuilt' = 1
        /\ objs' = Append(objs, NewRPALogger(name, kw))
        /\ pyLoggers' = Configure(pyLoggers, id, name, kw)
        /\ lResult' = Some(id)
        /\ UNCHANGED <<cache, served>>

\* handler.setLevel(level) on every handler of a logger
SetHandlerLevels(hs, level) ==
    [i \in 1..Len(hs) |-> [hs[i] EXCEPT !.level = level]]

\* set_level without the loop over the handlers
set_level_logger_only(id, level) ==
    LET name == objs[id].name
    IN  /\ lOp' = "set_level"
        /\ lArgs' = Some(<<id, level>>)
        /\ pyLoggers' = [pyLoggers EXCEPT ![name].level = level]
        /\ lBuilt' = 0
        /\ lResult' = None
        /\ UNCHANGED <<objs, cache, served, lKw>>

\* RPALogger.set_level on instance id: the logger's level, then the level of
\* each handler now attached to it; self.level stays what __init__ stored
set_level(id, level) ==
    LET name == objs[id].name
        lg == pyLoggers[name]
    IN  /\ lOp' = "set_level"
        /\ lArgs' = Some(<<id, level>>)
        /\ pyLoggers' =
               [pyLoggers EXCEPT
                   ![name] = [level |-> level,
                              handlers |-> SetHandlerLevels(lg.handlers,
                                                            level)]]
        /\ lBuilt' = 0
        /\ lResult' = None
        /\ UNCHANGED <<objs, cache, served, lKw>>

\* Two threads that may call get_logger at the same time, and a caller that
\* calls only after both have returned
Racers == {1, 2}

LaterCaller == 3

Threads == Racers \cup {LaterCaller}

\* the options the threads pass
ThreadKwargs == {KwDefault, KwNoSinks}

RaceInit ==
    /\ threads = [t \in Threads |->
                     [pc |-> "idle", name |-> "", kw |-> KwDefault,
                      miss |-> FALSE, obj |-> None, ret |-> None]]
    /\ stores = << >>

\* thread t enters get_logger(name, **kw); the later caller may call again
\* after it has returned, and only once both racers have returned
t_call(t, name, kw) ==
    /\ IF t = LaterCaller
       THEN /\ threads[t].pc \in {"idle", "done"}
            /\ \A r \in Racers : threads[r].pc = "done"
       ELSE threads[t].pc = "idle"
    /\ threads' = [threads EXCEPT
                      ![t] = [pc |-> "check", name |-> name, kw |-> kw,
                              miss |-> FALSE, obj |-> None, ret |-> None]]
    /\ UNCHANGED <<lvars, stores>>

\* if logger_key not in LoggerFactory._loggers
t_check(t) ==
    LET key == LoggerKey(threads[t].name, None)
    IN  /\ threads[t].pc = "check"
        /\ threads' = [threads EXCEPT
                          ![t].miss = ~Cached(key),
                          ![t].pc = IF Cached(key) THEN "return"
                                    ELSE "construct"]
        /\ UNCHANGED <<lvars, stores>>

\* RPALogger(name, **kwargs), the right-hand side of line 194; the steps of
\* __init__ are taken as one
t_construct(t) ==
    LET id == Len(objs) + 1
    IN  /\ threads[t].pc = "construct"
        /\ Len(objs) < MaxInstances
        /\ objs' = Append(objs, NewRPALogger(threads[t].name, threads[t].kw))
        /\ pyLoggers' = Configure(pyLoggers, id, threads[t].name,
                                  threads[t].kw)
        /\ threads' = [threads EXCEPT ![t].obj = Some(id), ![t].pc = "store"]
        /\ UNCHANGED <<cache, lOp, lKw, lArgs, lResult, lBuilt, served,
                       stores>>

\* a store that keeps the entry another thread has put there
t_store_keep(t) ==
    LET key == LoggerKey(threads[t].name, None)
        id == Val(threads[t].obj)
    IN  /\ threads[t].pc = "store"
        /\ cache' = cache @@ (key :> id)
        /\ stores' = Append(stores, <<key, id>>)
        /\ threads' = [threads EXCEPT ![t].pc = "return"]
        /\ UNCHANGED <<pyLoggers, objs, lOp, lKw, lArgs, lResult, lBuilt,
                       served>>

\* LoggerFactory._loggers[logger_key] = <the new instance>
t_store(t) ==
    LET key == LoggerKey(threads[t].name, None)
        id == Val(threads[t].obj)
    IN  /\ threads[t].pc = "store"
        /\ cache' = (key :> id) @@ cache
        /\ stores' = Append(stores, <<key, id>>)
        /\ threads' = [threads EXCEPT ![t].pc = "return"]
        /\ UNCHANGED <<pyLoggers, objs, lOp, lKw, lArgs, lResult, lBuilt,
                       served>>

\* return LoggerFactory._loggers[logger_key]
t_return(t) ==
    LET key == LoggerKey(threads[t].name, None)
    IN  /\ threads[t].pc = "return"
        /\ threads' = [threads EXCEPT ![t].ret = Some(cache[key]),
                                      ![t].pc = "done"]
        /\ UNCHANGED <<lvars, stores>>

\* The sinks a record of severity levelno emitted through instance id is
\* written to (debug/info/.../exception delegate to self.logger): the
\* logger's level filters first, then each attached handler's level. Logger
\* names are flat here, so no record propagates to a parent's handlers.
Emit(id, levelno) ==
    LET lg == pyLoggers[objs[id].name]
    IN  IF levelno < lg.level THEN << >>
        ELSE SelectSeq(lg.handlers, LAMBDA h : levelno >= h.level)

\* how many sinks of one kind a sequence of handlers holds
CountKind(hs, kind) ==
    Len(SelectSeq(hs, LAMBDA h : h.kind = kind))

(***************************************************************************)
(* RPALogger's file sink: logging.handlers.RotatingFileHandler constructed  *)
(* with maxBytes=self.max_bytes and backupCount=self.backup_count          *)
(***************************************************************************)

\* the largest active file the model follows
MaxFileSize == 6

\* max_bytes and backup_count as a caller may pass them, and the lengths of
\* formatted records
MaxBytesChoices == {0, 3}

BackupCountChoices == {0, 1, 2}

RecordLens == {1, 2, 4}

RotateInit ==
    /\ rMax = None
    /\ rCount = None
    /\ rActive = 0
    /\ rRing = << >>
    /\ rOp = "init"
    /\ rLen = 0

\* RPALogger(max_bytes=..., backup_count=..., enable_file=True): the values
\* go to RotatingFileHandler unchanged; the log file is opened for append
add_file_handler(max_bytes, backup_count) ==
    /\ rMax = None
    /\ rMax' = Some(max_bytes)
    /\ rCount' = Some(backup_count)
    /\ rOp' = "add_file_handler"
    /\ UNCHANGED <<rActive, rRing, rLen>>

\* the handler's rollover test for a record of len bytes: never with
\* maxBytes 0, else when the record would take the file to maxBytes or
\* beyond; whether an empty file is rolled depends on the Python version
shouldRollover(size, len, rollsEmpty) ==
    /\ Val(rMax) > 0
    /\ size + len >= Val(rMax)
    /\ size > 0 \/ rollsEmpty

\* os.rename(<log_file>.s, <log_file>.d), replacing <log_file>.d
RenameBackup(ring, s, d) ==
    [j \in (DOMAIN ring \ {s}) \cup {d} |->
        IF j = d THEN ring[s] ELSE ring[j]]

\* for i in range(backupCount - 1, 0, -1): move <log_file>.i to .i+1
RECURSIVE ShiftBackups(_, _)
ShiftBackups(ring, i) ==
    IF i < 1 THEN ring
    ELSE ShiftBackups(IF i \in DOMAIN ring THEN RenameBackup(ring, i, i + 1)
                      ELSE ring,
                      i - 1)

\* the handler's rollover: with backupCount > 0 shift the backups, rename the
\* active file to .1 and open a fresh one; with backupCount 0 the stream is
\* only closed and reopened for append. Gives <<backups, active size>>.
doRollover(ring, size, count) ==
    LET shifted == ShiftBackups(ring, count - 1)
    IN  IF count > 0
        THEN <<[j \in DOMAIN shifted \cup {1} |->
                   IF j = 1 THEN size ELSE shifted[j]], 0>>
        ELSE <<ring, size>>

\* one record of len bytes reaching the file handler through debug, info,
\* warning, error, critical or exception: roll over if due, then append
emit(len, rollsEmpty) ==
    LET rolled == IF shouldRollover(rActive, len, rollsEmpty)
                  THEN doRollover(rRing, rActive, Val(rCount))
                  ELSE <<rRing, rActive>>
    IN  /\ rMax # None
        /\ rolled[2] + len <= MaxFileSize
        /\ rOp' = "emit"
        /\ rLen' = len
        /\ rRing' = rolled[1]
        /\ rActive' = rolled[2] + len
        /\ UNCHANGED <<rMax, rCount>>

(***************************************************************************)
(* DataHandler: convert_dtype                                              *)
(***************************************************************************)

\* Bound: rows of a dataset.
MaxRows == 1

\* Bound: entries of a dtype_mapping.
MaxMapLen == 3

\* A cell is a tagged value: the integer n, or a text. The text of a
\* numeral n carries n; NaS is the code of a text that is no numeral.
NaS == 0 - 1
IntCell(n) == <<"int", n>>
TextCell(n) == <<"str", n>>

\* a column of dtype int64, or of dtype object holding texts
IntColumns == {[dtype |-> "int64", vals |-> [i \in 1..MaxRows |-> IntCell(7)]]}
TextColumns ==
    {[dtype |-> "object", vals |-> v] :
        v \in [1..MaxRows -> {TextCell(7), TextCell(NaS)}]}

ColumnNames == {"c1", "c2"}

\* datasets: any subset of the column names, each an int or a text column
Datasets ==
    UNION {[cols -> IntColumns \cup TextColumns] : cols \in SUBSET ColumnNames}

\* the dtype names a mapping uses; "integer" is no dtype numpy understands
DtypeNames == {"int", "str", "integer"}

\* dtype_mapping in dict order: distinct keys, some absent from the dataset
MappingKeys == ColumnNames \cup {"zz"}
Mappings ==
    {m \in UNION {[1..n -> MappingKeys \X DtypeNames] : n \in 0..MaxMapLen} :
        \A i, j \in 1..Len(m) : m[i][1] = m[j][1] => i = j}

\* whether Series.astype(dtype) succeeds: int() of a text that is no
\* numeral raises ValueError, an unknown dtype name raises TypeError
CastOk(col, dtype) ==
    CASE dtype = "int" -> \A i \in 1..Len(col.vals) : col.vals[i][2] # NaS
      [] dtype = "str" -> TRUE
      [] OTHER -> FALSE

\* Series.astype(dtype) where it succeeds
Cast(col, dtype) ==
    IF dtype = "int"
    THEN [dtype |-> "int64",
          vals |-> [i \in 1..Len(col.vals) |-> IntCell(col.vals[i][2])]]
    ELSE [dtype |-> "object",
          vals |-> [i \in 1..Len(col.vals) |-> TextCell(col.vals[i][2])]]

\* the loop of convert_dtype leaving at the first failed cast
RECURSIVE ConvertLoopAbort(_, _, _)
ConvertLoopAbort(d, m, printed) ==
    IF m = << >> THEN [df |-> d, printed |-> printed]
    ELSE LET column == Head(m)[1]
             dtype == Head(m)[2]
         IN  IF column \in DOMAIN d
             THEN IF CastOk(d[column], dtype)
                  THEN ConvertLoopAbort(
                           [d EXCEPT ![column] = Cast(d[column], dtype)],
                           Tail(m), printed)
                  ELSE [df |-> d, printed |-> printed \cup {column}]
             ELSE ConvertLoopAbort(d, Tail(m), printed)

\* for column, dtype in dtype_mapping.items(): cast the columns the dataset
\* has, print the failure of a cast and go on
RECURSIVE ConvertLoop(_, _, _)
ConvertLoop(d, m, printed) ==
    IF m = << >> THEN [df |-> d, printed |-> printed]
    ELSE LET column == Head(m)[1]
             dtype == Head(m)[2]
         IN  IF column \in DOMAIN d
             THEN IF CastOk(d[column], dtype)
                  THEN ConvertLoop(
                           [d EXCEPT ![column] = Cast(d[column], dtype)],
                           Tail(m), printed)
                  ELSE ConvertLoop(d, Tail(m), printed \cup {column})
             ELSE ConvertLoop(d, Tail(m), printed)

\* DataHandler.convert_dtype: works on df.copy() and returns it
convert_dtype ==
    LET r == ConvertLoop(df, mapping, {})
    IN  /\ dOp' = "convert_dtype"
        /\ dOut' = Some(r.df)
        /\ dPrinted' = r.printed
        /\ dRaised' = FALSE
        /\ UNCHANGED <<df, mapping, sArgs, sPath, sWriter, files, dirExists,
                       docs, dRead>>

(***************************************************************************)
(* DataHandler: writers and save_with_timestamp                            *)
(***************************************************************************)

DEFAULT_OUTPUT_DIR == "dados_exportados"

\* DataHandler.__init__: output_dir is created; no call was made yet
DataInit ==
    /\ df = << >>
    /\ mapping = << >>
    /\ dOut = None
    /\ dPrinted = {}
    /\ dRaised = FALSE
    /\ dOp = "init"
    /\ sArgs = None
    /\ sPath = None
    /\ sWriter = None
    /\ files = {}
    /\ dirExists = TRUE
    /\ docs = << >>
    /\ dRead = None

\* the writer methods of DataHandler and the extension each one appends
WriterExt ==
    [save_csv |-> "csv", save_excel |-> "xlsx", save_json |-> "json",
     save_parquet |-> "parquet", save_html |-> "html"]

\* the formats the docstring of save_with_timestamp lists
DocFormats == {"csv", "xlsx", "json", "parquet"}

\* the format arguments tried: the documented ones, and the method suffixes
Formats == DocFormats \cup {"html", "excel"}

Filenames == {"x", "data.csv"}

\* Bound: files the model lets output_dir hold.
MaxFiles == 2

\* datetime.now(): a few instants, with one- and two-digit fields
Clock ==
    [year : {2026}, month : {1, 12}, day : {5}, hour : {0},
     minute : {7}, second : {9, 59}]

\* the decimal digit d as text
Digit(d) == SubSeq("0123456789", d + 1, d + 1)

\* n as decimal text, zero-padded to w digits (strftime's %Y %m %d %H %M %S)
RECURSIVE Pad(_, _)
Pad(n, w) == IF w = 0 THEN "" ELSE Pad(n \div 10, w - 1) \o Digit(n % 10)

\* datetime.strftime('%Y%m%d_%H%M%S')
Strftime(t) ==
    Pad(t.year, 4) \o Pad(t.month, 2) \o Pad(t.day, 2) \o "_"
    \o Pad(t.hour, 2) \o Pad(t.minute, 2) \o Pad(t.second, 2)

\* str.endswith
EndsWith(s, suffix) ==
    /\ Len(s) >= Len(suffix)
    /\ SubSeq(s, Len(s) - Len(suffix) + 1, Len(s)) = suffix

\* DataHandler._add_extension
AddExtension(filename, extension) ==
    IF ~EndsWith(filename, "." \o extension)
    THEN filename \o "." \o extension
    ELSE filename

\* the datasets a caller writes: at least one column
Tables == {d \in Datasets : DOMAIN d # {}}

\* the number of rows of a dataset
NRows(d) ==
    IF DOMAIN d = {} THEN 0 ELSE Len(d[CHOOSE c \in DOMAIN d : TRUE].vals)

\* the column names and the row count of a dataset
Shape(d) == [columns |-> DOMAIN d, rows |-> NRows(d)]

\* The document each writer produces, as far as names and rows go.
\* to_csv and to_excel are called with index=False: a header of the column
\* names and one line per row. to_json is called with orient='records': one
\* object per row keyed by the column names, so no names without rows.
\* to_parquet stores the schema and the rows. to_html is called with no
\* index argument, so pandas' default index=True adds the index as a
\* leading unnamed column.
Document(method, d) ==
    [format |-> WriterExt[method],
     index |-> (method = "save_html"),
     header |-> IF method = "save_json" /\ NRows(d) = 0 THEN {}
                ELSE DOMAIN d,
     rows |-> NRows(d)]

\* the reader methods of DataHandler and the format each one parses
ReaderFormat ==
    [read_csv |-> "csv", read_excel |-> "xlsx", read_json |-> "json",
     read_parquet |-> "parquet", read_html |-> "html"]

\* the name pandas gives a header cell that is empty
UnnamedIndex == "Unnamed: 0"

\* the columns and rows a reader finds in a document
Parsed(doc) ==
    [columns |-> IF doc.index THEN doc.header \cup {UnnamedIndex}
                 ELSE doc.header,
     rows |-> doc.rows]

\* pd.read_html(html_path, match=match, **kwargs) with match left at None:
\* the None is passed on in place of pandas' own default pattern, so the call
\* raises where pandas compiles the pattern; otherwise it answers with the
\* list of the tables found
read_html(doc, compiles) ==
    IF compiles THEN [kind |-> "list", tables |-> <<Parsed(doc)>>]
    ELSE [kind |-> "error", tables |-> << >>]

\* read_csv / read_excel / read_json / read_parquet: one DataFrame
read_frame(doc) == [kind |-> "frame", tables |-> <<Parsed(doc)>>]

\* a read_* call on a file under output_dir that a writer of the same format
\* wrote
read(reader, name, compiles) ==
    /\ name \in DOMAIN docs
    /\ docs[name].format = ReaderFormat[reader]
    /\ dOp' = reader
    /\ sArgs' = Some([filename |-> name, format |-> ReaderFormat[reader]])
    /\ dRead' = Some(IF reader = "read_html"
                     THEN read_html(docs[name], compiles)
                     ELSE read_frame(docs[name]))
    /\ dRaised' = (reader = "read_html" /\ ~compiles)
    /\ UNCHANGED <<df, mapping, dOut, dPrinted, sPath, sWriter, files,
                   dirExists, docs>>

\* os.path.join(self.output_dir, filename)
JoinPath(dir, filename) == dir \o "/" \o filename

\* save_csv / save_excel / save_json / save_parquet / save_html: add the
\* extension, join the path, write. The write fails (OSError) when
\* output_dir is gone.
SaveWith(method, filename) ==
    LET name == AddExtension(filename, WriterExt[method])
    IN  IF dirExists
        THEN /\ name \in files \/ Cardinality(files) < MaxFiles
             /\ files' = files \cup {name}
             /\ docs' = (name :> Document(method, df)) @@ docs
             /\ sPath' = Some(JoinPath(DEFAULT_OUTPUT_DIR, name))
             /\ sWriter' = Some(method)
             /\ dRaised' = FALSE
        ELSE /\ files' = files
             /\ docs' = docs
             /\ sPath' = None
             /\ sWriter' = Some(method)
             /\ dRaised' = TRUE

\* getattr(self, f'save_{format}'): the method of that name, or
\* AttributeError (None) when DataHandler has none
WriterLookup(format) ==
    IF ("save_" \o format) \in DOMAIN WriterExt
    THEN Some("save_" \o format) ELSE None

\* DataHandler.save_with_timestamp
save_with_timestamp(filename, format, now) ==
    LET filename_with_ts == filename \o "_" \o Strftime(now)
        save_method == WriterLookup(format)
    IN  /\ dOp' = "save_with_timestamp"
        /\ sArgs' = Some([filename |-> filename, format |-> format])
        /\ IF save_method = None
           THEN /\ dRaised' = TRUE
                /\ sPath' = None
                /\ sWriter' = None
                /\ files' = files
                /\ docs' = docs
           ELSE SaveWith(Val(save_method), filename_with_ts)
        /\ UNCHANGED <<df, mapping, dOut, dPrinted, dirExists, dRead>>

\* a direct call of one writer: save_csv(df, filename), save_excel(...), ...
save(method, filename) ==
    /\ dOp' = method
    /\ sArgs' = Some([filename |-> filename, format |-> WriterExt[method]])
    /\ SaveWith(method, filename)
    /\ UNCHANGED <<df, mapping, dOut, dPrinted, dirExists, dRead>>

\* DataHandler(): the only place _ensure_output_dir is called from
new_handler ==
    /\ dOp' = "init"
    /\ dirExists' = TRUE
    /\ dRaised' = FALSE
    /\ sArgs' = None
    /\ sPath' = None
    /\ sWriter' = None
    /\ UNCHANGED <<df, mapping, dOut, dPrinted, files, docs, dRead>>

\* the environment removes output_dir and what it holds
remove_output_dir ==
    /\ dirExists
    /\ dOp' = "rmdir"
    /\ dirExists' = FALSE
    /\ files' = {}
    /\ docs' = << >>
    /\ dRaised' = FALSE
    /\ sArgs' = None
    /\ sPath' = None
    /\ sWriter' = None
    /\ UNCHANGED <<df, mapping, dOut, dPrinted, dRead>>

(***************************************************************************)
(* Specifications                                                          *)
(***************************************************************************)

Init == BrowserInit /\ LoggerInit /\ DataInit /\ RaceInit /\ RotateInit

\* one BrowserManager driven by its caller
BrowserNext ==
    \/ \E ok \in BOOLEAN : get_driver(ok)
           /\ UNCHANGED <<lvars, dvars, tvars, rvars>>
    \/ \E ok, dies \in BOOLEAN :
           close_driver(ok, dies) /\ UNCHANGED <<lvars, dvars, tvars, rvars>>
    \/ \E url \in Urls, ok \in BOOLEAN :
           navigate(url, ok) /\ UNCHANGED <<lvars, dvars, tvars, rvars>>
    \/ \E found \in BOOLEAN :
           wait_element(found) /\ UNCHANGED <<lvars, dvars, tvars, rvars>>
    \/ \E found \in BOOLEAN :
           wait_element_clickable(found)
               /\ UNCHANGED <<lvars, dvars, tvars, rvars>>
    \/ get_current_url /\ UNCHANGED <<lvars, dvars, tvars, rvars>>
    \/ get_page_source /\ UNCHANGED <<lvars, dvars, tvars, rvars>>

SpecBrowser == Init /\ [][BrowserNext]_vars

\* the logger registry with short names and every option
LoggerNext ==
    \/ \E name \in ShortNames, context \in ShortContexts, kw \in Kwargs :
           get_logger(name, context, kw)
               /\ UNCHANGED <<bvars, dvars, tvars, rvars>>
    \/ \E name \in ShortNames, kw \in Kwargs :
           get_rpa_logger(name, kw) /\ UNCHANGED <<bvars, dvars, tvars, rvars>>
    \/ clear_cache /\ UNCHANGED <<bvars, dvars, tvars, rvars>>

SpecLogger == Init /\ [][LoggerNext]_vars

\* the logger registry with long names and the default options
KeysNext ==
    \/ \E name \in LongNames, context \in LongContexts :
           get_logger(name, context, KwDefault)
               /\ UNCHANGED <<bvars, dvars, tvars, rvars>>
    \/ clear_cache /\ UNCHANGED <<bvars, dvars, tvars, rvars>>

SpecKeys == Init /\ [][KeysNext]_vars

\* convert_dtype on every small dataset and mapping
CastInit ==
    /\ BrowserInit /\ LoggerInit /\ RaceInit /\ RotateInit
    /\ df \in Datasets
    /\ mapping \in Mappings
    /\ dOut = None
    /\ dPrinted = {}
    /\ dRaised = FALSE
    /\ dOp = "init"
    /\ sArgs = None
    /\ sPath = None
    /\ sWriter = None
    /\ files = {}
    /\ dirExists = TRUE
    /\ docs = << >>
    /\ dRead = None

CastNext == convert_dtype /\ UNCHANGED <<bvars, lvars, tvars, rvars>>

SpecCast == CastInit /\ [][CastNext]_vars

\* save_with_timestamp with every format, name and instant
SaveNext ==
    \E filename \in Filenames, format \in Formats, now \in Clock :
        save_with_timestamp(filename, format, now)
            /\ UNCHANGED <<bvars, lvars, tvars, rvars>>

SpecSave == Init /\ [][SaveNext]_vars

\* the writers called directly, with output_dir created by the constructor
\* and removable by the environment
WriteNext ==
    \/ \E method \in DOMAIN WriterExt, filename \in Filenames :
           save(method, filename) /\ UNCHANGED <<bvars, lvars, tvars, rvars>>
    \/ new_handler /\ UNCHANGED <<bvars, lvars, tvars, rvars>>
    \/ remove_output_dir /\ UNCHANGED <<bvars, lvars, tvars, rvars>>

SpecWrite == Init /\ [][WriteNext]_vars

\* constructions through the factory and directly, and set_level on any
\* instance built so far
LevelsNext ==
    \/ \E name \in ShortNames, kw \in Kwargs :
           get_logger(name, None, kw)
               /\ UNCHANGED <<bvars, dvars, tvars, rvars>>
    \/ \E name \in ShortNames, kw \in Kwargs :
           get_rpa_logger(name, kw) /\ UNCHANGED <<bvars, dvars, tvars, rvars>>
    \/ \E id \in 1..Len(objs), level \in Levels :
           set_level(id, level) /\ UNCHANGED <<bvars, dvars, tvars, rvars>>

SpecLevels == Init /\ [][LevelsNext]_vars

\* get_logger called from threads, the statements of each call interleaved
RaceNext ==
    \/ \E t \in Threads, name \in ShortNames, kw \in ThreadKwargs :
           t_call(t, name, kw) /\ UNCHANGED <<bvars, dvars, rvars>>
    \/ \E t \in Threads : t_check(t) /\ UNCHANGED <<bvars, dvars, rvars>>
    \/ \E t \in Threads : t_construct(t) /\ UNCHANGED <<bvars, dvars, rvars>>
    \/ \E t \in Threads : t_store(t) /\ UNCHANGED <<bvars, dvars, rvars>>
    \/ \E t \in Threads : t_return(t) /\ UNCHANGED <<bvars, dvars, rvars>>

SpecRace == Init /\ [][RaceNext]_vars

\* one RPALogger with a file sink, and the records written through it
RotateNext ==
    \/ \E max_bytes \in MaxBytesChoices, backup_count \in BackupCountChoices :
           add_file_handler(max_bytes, backup_count)
               /\ UNCHANGED <<bvars, lvars, dvars, tvars>>
    \/ \E len \in RecordLens, rollsEmpty \in BOOLEAN :
           emit(len, rollsEmpty) /\ UNCHANGED <<bvars, lvars, dvars, tvars>>

SpecRotate == Init /\ [][RotateNext]_vars

\* a dataset of the caller's written by each writer and read back
RoundTripInit ==
    /\ BrowserInit /\ LoggerInit /\ RaceInit /\ RotateInit
    /\ df \in Tables
    /\ mapping = << >>
    /\ dOut = None
    /\ dPrinted = {}
    /\ dRaised = FALSE
    /\ dOp = "init"
    /\ sArgs = None
    /\ sPath = None
    /\ sWriter = None
    /\ files = {}
    /\ dirExists = TRUE
    /\ docs = << >>
    /\ dRead = None

RoundTripNext ==
    \/ \E method \in DOMAIN WriterExt, filename \in Filenames :
           save(method, filename) /\ UNCHANGED <<bvars, lvars, tvars, rvars>>
    \/ \E reader \in DOMAIN ReaderFormat, name \in DOMAIN docs,
          compiles \in BOOLEAN :
           read(reader, name, compiles)
               /\ UNCHANGED <<bvars, lvars, tvars, rvars>>

SpecRoundTrip == RoundTripInit /\ [][RoundTripNext]_vars

Spec == SpecBrowser

(***************************************************************************)
(* Claims: BrowserManager                                                  *)
(***************************************************************************)

\* C2: while a driver is held, get_driver returns that same handle, launches
\* nothing and changes nothing of the manager; a get_driver that does launch
\* starts exactly one process.
C2_GetDriverIdempotent ==
    [][bOp' = "get_driver" =>
          /\ driver # None =>
                /\ bResult' = driver
                /\ bLaunches' = 0
                /\ ~bRaised'
                /\ UNCHANGED <<driver, wait, running, nextHandle, page>>
          /\ driver = None /\ ~bRaised' =>
                /\ bLaunches' = 1
                /\ nextHandle' = nextHandle + 1
                /\ running' = running \cup {nextHandle}
                /\ bResult' = driver']_vars

\* C2 witness: a second get_driver answered with the handle already held.
C2_Witness ==
    /\ bOp = "get_driver"
    /\ bLaunches = 0
    /\ driver # None
    /\ bResult = driver

\* C4: close_driver with no driver held is a no-op: quit() is not called,
\* nothing is raised, the manager stays absent (driver and wait None), so
\* any number of such calls leaves what one leaves.
C4_CloseNoOpWhenAbsent ==
    [][bOp' = "close_driver" /\ driver = None =>
          /\ bQuits' = 0
          /\ ~bRaised'
          /\ ~bDriverErr'
          /\ driver' = None /\ wait = None /\ wait' = None
          /\ UNCHANGED <<running, nextHandle, page>>]_vars

\* C4 witness: a close_driver after the driver was launched and closed.
C4_Witness ==
    /\ bOp = "close_driver"
    /\ bQuits = 0
    /\ driver = None
    /\ nextHandle > 1

\* C5 (as claimed): at most one process per manager, and once close_driver
\* has returned the manager holds no handle: driver and wait are None.
C5_AbsentAfterClose ==
    /\ Cardinality(running) <= 1
    /\ bOp = "close_driver" => driver = None /\ wait = None

\* C8: a failed Selenium call in get_driver or navigate is raised to the
\* caller; a get_driver that raised made one launch attempt, returned no
\* handle and left driver and wait None; get_driver with no driver held
\* always attempts a launch.
C8_FailuresPropagate ==
    [][/\ bOp' \in {"get_driver", "navigate"} /\ bDriverErr' => bRaised'
       /\ bOp' = "get_driver" /\ bRaised' =>
             /\ driver = None
             /\ driver' = None /\ wait' = None
             /\ bLaunches' = 1
             /\ bResult' = None
             /\ UNCHANGED <<running, nextHandle, page>>
       /\ bOp' = "get_driver" /\ driver = None => bLaunches' = 1
       /\ bOp' = "navigate" /\ bRaised' =>
             UNCHANGED <<driver, wait, running, nextHandle, page>>]_vars

\* C8 witness: a get_driver whose launch failed has raised and left the
\* manager absent.
C8_Witness ==
    /\ bOp = "get_driver"
    /\ bDriverErr
    /\ bRaised
    /\ bLaunches = 1
    /\ driver = None
    /\ wait = None

(***************************************************************************)
(* Claims: logger registry                                                 *)
(***************************************************************************)

\* C1: with no clear_cache in between, a get_logger for a (name, context)
\* already requested returns the instance the first such call returned, and
\* constructs nothing.
C1_SameInstance ==
    [][\A name \in ShortNames, context \in ShortContexts, kw \in Kwargs :
          <<name, context>> \in DOMAIN served /\ get_logger(name, context, kw)
          => /\ lResult' = Some(served[<<name, context>>])
             /\ lBuilt' = 0
             /\ objs' = objs]_vars

\* C1 witness: a get_logger answered from the cache with the instance first
\* returned for some pair.
C1_Witness ==
    /\ lOp = "get_logger"
    /\ lBuilt = 0
    /\ \E p \in DOMAIN served : lResult = Some(served[p])

\* C3: a get_logger whose key is cached returns the cached instance and
\* leaves the instances' attributes, the loggers' levels and handlers and
\* the cache as they were, whatever options it was given.
C3_FirstWriterWins ==
    [][\A name \in ShortNames, context \in ShortContexts, kw \in Kwargs :
          LoggerKey(name, context) \in DOMAIN cache
          /\ get_logger(name, context, kw)
          => /\ lResult' = Some(cache[LoggerKey(name, context)])
             /\ UNCHANGED <<objs, pyLoggers, cache>>]_vars

\* C3 witness: a cache hit asked for options other than the ones the cached
\* instance was built with.
C3_Witness ==
    /\ lOp = "get_logger"
    /\ lBuilt = 0
    /\ lResult # None
    /\ objs[Val(lResult)] # NewRPALogger(objs[Val(lResult)].name, lKw)

\* the instance constructed last for a name
LastBuilt(name) ==
    CHOOSE i \in 1..Len(objs) :
        /\ objs[i].name = name
        /\ \A j \in 1..Len(objs) : objs[j].name = name => j <= i

\* C6: every logger carries exactly the sinks of the last construction for
\* its name (one console sink if enabled, one file sink if enabled, none of
\* an earlier construction), so a record goes to each sink kind at most once.
C6_OnlyLastSinks ==
    \A name \in DOMAIN pyLoggers :
        LET hs == pyLoggers[name].handlers
            last == LastBuilt(name)
        IN  /\ CountKind(hs, "console")
                 = IF objs[last].enable_console THEN 1 ELSE 0
            /\ CountKind(hs, "file") = IF objs[last].enable_file THEN 1 ELSE 0
            /\ \A i \in 1..Len(hs) : hs[i].owner = last
            /\ \A j \in 1..Len(objs), levelno \in Levels :
                   objs[j].name = name
                   => /\ CountKind(Emit(j, levelno), "console") <= 1
                      /\ CountKind(Emit(j, levelno), "file") <= 1

\* C6 witness: a name constructed twice, the first time with sinks, whose
\* logger now holds the sinks of the second construction.
C6_Witness ==
    \E i, j \in 1..Len(objs) :
        /\ i < j
        /\ objs[i].name = objs[j].name
        /\ objs[i].enable_console /\ objs[i].enable_file
        /\ Len(pyLoggers[objs[j].name].handlers) = 2

\* a (name, context) pair with an empty context read as no context
NormPair(p) == IF p[2] = Some("") THEN <<p[1], None>> ELSE p

\* C7 (as claimed): two requests are served by the same cache entry exactly
\* when their (name, context) pairs are equal.
C7_EntryIffSamePair ==
    \A p, q \in DOMAIN served :
        (served[p] = served[q]) <=> (NormPair(p) = NormPair(q))

(***************************************************************************)
(* Claims: DataHandler                                                     *)
(***************************************************************************)

\* what convert_dtype owes its caller for dataset d and mapping m
CastPost(d, m, out, printed, raised) ==
    /\ ~raised
    /\ out # None
    /\ DOMAIN Val(out) = DOMAIN d
    /\ \A c \in DOMAIN d :
           LET hits == {i \in 1..Len(m) : m[i][1] = c}
           IN  IF hits = {} THEN Val(out)[c] = d[c] /\ c \notin printed
               ELSE LET dtype == m[CHOOSE i \in hits : TRUE][2]
                    IN  IF CastOk(d[c], dtype)
                        THEN Val(out)[c] = Cast(d[c], dtype) /\ c \notin printed
                        ELSE Val(out)[c] = d[c] /\ c \in printed

\* C9: convert_dtype raises nothing, returns a dataset with the columns of
\* its input in which every column whose cast succeeds is converted and
\* every other column (cast failed, or not in the mapping) is as it was, skips
\* the mapping keys the dataset lacks, and leaves its input unmodified.
C9_CastPerColumn ==
    [][dOp' = "convert_dtype"
       => CastPost(df, mapping, dOut', dPrinted', dRaised') /\ df' = df]_vars

\* C9 witness: one call whose mapping had a failing cast before a succeeding
\* one and a key the dataset lacks.
C9_Witness ==
    /\ dOp = "convert_dtype"
    /\ \E i, j, k \in 1..Len(mapping) :
           /\ i < j
           /\ mapping[i][1] \in dPrinted
           /\ mapping[j][1] \in DOMAIN df
           /\ Val(dOut)[mapping[j][1]] # df[mapping[j][1]]
           /\ mapping[k][1] \notin DOMAIN df

\* the writer each documented format names
FormatWriter ==
    [csv |-> "save_csv", xlsx |-> "save_excel", json |-> "save_json",
     parquet |-> "save_parquet"]

\* text made of decimal digits only
IsDigits(s) ==
    \A i \in 1..Len(s) : \E d \in 0..9 : SubSeq(s, i, i) = Digit(d)

\* path is output_dir/name_<8 digits>_<6 digits>.ext
StampedPath(path, name, ext) ==
    LET prefix == DEFAULT_OUTPUT_DIR \o "/" \o name \o "_"
        n == Len(prefix)
    IN  /\ Len(path) = n + 8 + 1 + 6 + 1 + Len(ext)
        /\ SubSeq(path, 1, n) = prefix
        /\ IsDigits(SubSeq(path, n + 1, n + 8))
        /\ SubSeq(path, n + 9, n + 9) = "_"
        /\ IsDigits(SubSeq(path, n + 10, n + 15))
        /\ SubSeq(path, n + 16, Len(path)) = "." \o ext

\* C10 (as claimed): for csv, xlsx, json and parquet, save_with_timestamp
\* dispatches to that format's writer and returns
\* output_dir/name_YYYYMMDD_HHMMSS.format.
C10_StampedSave ==
    dOp = "save_with_timestamp" /\ Val(sArgs).format \in DocFormats
    => /\ ~dRaised
       /\ sWriter = Some(FormatWriter[Val(sArgs).format])
       /\ sPath # None
       /\ StampedPath(Val(sPath), Val(sArgs).filename, Val(sArgs).format)


\* C11 (as claimed): every writer call succeeds, whether or not output_dir
\* existed just before it: the directory exists afterwards and the call
\* returns output_dir/<name>.<ext>, the extension appended unless the name
\* already ends with it.
C11_WriteCreatesDir ==
    dOp \in DOMAIN WriterExt
    => /\ ~dRaised
       /\ dirExists
       /\ sPath = Some(JoinPath(DEFAULT_OUTPUT_DIR,
                                AddExtension(Val(sArgs).filename,
                                             WriterExt[dOp])))
       /\ AddExtension(Val(sArgs).filename, WriterExt[dOp]) \in files


\* the operations that use a session without owning its lifecycle
SessionUsers ==
    {"navigate", "wait_element", "wait_element_clickable",
     "get_current_url", "get_page_source"}

\* C17: only get_driver starts a driver process. navigate, wait_element,
\* wait_element_clickable, get_current_url and get_page_source never create a
\* session and leave driver and wait as they were; called while no driver is
\* held, each raises to the caller and the manager stays absent.
C17_OnlyGetDriverLaunches ==
    [][/\ bOp' # "get_driver" =>
             /\ bLaunches' = 0
             /\ running' \subseteq running
             /\ nextHandle' = nextHandle
       /\ bOp' \in SessionUsers =>
             /\ UNCHANGED <<driver, wait, running, nextHandle>>
             /\ driver = None =>
                   /\ bRaised'
                   /\ driver' = None
                   /\ wait' = None]_vars

\* C17 witness: wait_element called with no driver held has raised, and no
\* process was ever started.
C17_Witness ==
    /\ bOp = "wait_element"
    /\ bRaised
    /\ driver = None
    /\ wait = None
    /\ nextHandle = 1


(***************************************************************************)
(* Claims: RPALogger levels and shared loggers                             *)
(***************************************************************************)

\* every handler attached to a logger has the logger's level
SinksAtLoggerLevel(reg) ==
    \A name \in DOMAIN reg :
        \A i \in 1..Len(reg[name].handlers) :
            reg[name].handlers[i].level = reg[name].level

\* C12: right after set_level(L) on an instance, its logger and every handler
\* attached to that logger have level L and the handlers are otherwise the
\* same; and after every construction or set_level each attached handler's
\* level equals its logger's level.
C12_SetLevelPropagates ==
    [][/\ SinksAtLoggerLevel(pyLoggers')
       /\ lOp' = "set_level" =>
             LET id == Val(lArgs')[1]
                 level == Val(lArgs')[2]
                 name == objs[id].name
             IN  /\ pyLoggers'[name].level = level
                 /\ Len(pyLoggers'[name].handlers)
                      = Len(pyLoggers[name].handlers)
                 /\ \A i \in 1..Len(pyLoggers[name].handlers) :
                        pyLoggers'[name].handlers[i]
                          = [pyLoggers[name].handlers[i]
                                EXCEPT !.level = level]]_vars

\* C12 witness: set_level has just moved a logger with a console and a file
\* handler to a level other than the one its instance was constructed with.
C12_Witness ==
    /\ lOp = "set_level"
    /\ LET id == Val(lArgs)[1]
           level == Val(lArgs)[2]
           lg == pyLoggers[objs[id].name]
       IN  /\ Len(lg.handlers) = 2
           /\ level # objs[id].level
           /\ lg.level = level


\* C16: two cache entries with one name and different contexts are separate
\* instances over one logger: that logger has the level of the instance
\* constructed last for the name and only that instance's sinks, and a record
\* sent through either entry's instance reaches the same sinks, all of them
\* the last constructed instance's.
C16_ContextsShareLogger ==
    \A p, q \in DOMAIN served :
        (p[1] = q[1] /\ p[2] # q[2])
        => LET last == LastBuilt(p[1])
               lg == pyLoggers[p[1]]
           IN  /\ served[p] # served[q]
               /\ lg.level = objs[last].level
               /\ \A i \in 1..Len(lg.handlers) :
                      /\ lg.handlers[i].owner = last
                      /\ lg.handlers[i].level = objs[last].level
               /\ \A levelno \in Levels :
                      /\ Emit(served[p], levelno) = Emit(served[q], levelno)
                      /\ \A i \in 1..Len(Emit(served[p], levelno)) :
                             Emit(served[p], levelno)[i].owner = last

\* C16 witness: the second context of a name was constructed with another
\* level than the first and with no sinks, the first having had a console
\* and a file sink; a record sent through the first instance is now dropped.
C16_Witness ==
    \E p, q \in DOMAIN served :
        /\ p[1] = q[1] /\ p[2] # q[2]
        /\ served[p] < served[q]
        /\ served[q] = LastBuilt(p[1])
        /\ objs[served[p]].enable_console /\ objs[served[p]].enable_file
        /\ objs[served[p]].level # objs[served[q]].level
        /\ pyLoggers[p[1]].level = objs[served[q]].level
        /\ Emit(served[p], 40) = << >>


(***************************************************************************)
(* Claims: LoggerFactory under concurrent calls                            *)
(***************************************************************************)

\* the instance most recently assigned to _loggers[key]
LastStored(key) ==
    LET idx == {i \in 1..Len(stores) : stores[i][1] = key}
        last == CHOOSE i \in idx : \A j \in idx : j <= i
    IN  stores[last][2]

\* two racers that both found the same key missing and have both returned
RaceOver(t, u) ==
    /\ t # u
    /\ threads[t].pc = "done" /\ threads[u].pc = "done"
    /\ threads[t].name = threads[u].name
    /\ threads[t].miss /\ threads[u].miss

\* C15: when two threads race get_logger for one uncached key and both
\* construct, the cache ends with one instance under the key, the one stored
\* last; each racer got one of the two constructed instances, and every
\* later get_logger for the key returns the cached one without constructing.
C15_LastWriterWins ==
    \A t, u \in Racers :
        RaceOver(t, u)
        => LET key == LoggerKey(threads[t].name, None)
               later == threads[LaterCaller]
           IN  /\ threads[t].obj # threads[u].obj
               /\ Cached(key)
               /\ cache[key] = LastStored(key)
               /\ Some(cache[key]) \in {threads[t].obj, threads[u].obj}
               /\ threads[t].ret \in {threads[t].obj, threads[u].obj}
               /\ (later.pc = "done" /\ later.name = threads[t].name)
                  => /\ ~later.miss
                     /\ later.obj = None
                     /\ later.ret = Some(LastStored(key))

\* C15 witness: both racers constructed, each returned its own instance, so
\* they hold different instances, and a later call got the one stored last.
C15_Witness ==
    /\ RaceOver(1, 2)
    /\ threads[1].ret # threads[2].ret
    /\ threads[1].ret = threads[1].obj
    /\ threads[LaterCaller].pc = "done"
    /\ threads[LaterCaller].name = threads[1].name
    /\ threads[LaterCaller].ret = threads[2].ret


(***************************************************************************)
(* Claims: the rotating file sink                                          *)
(***************************************************************************)

\* C13 (as claimed): whenever a record would take the active file past
\* max_bytes, the active file is renamed to the first backup and the record
\* starts a fresh file; and the number of backups never exceeds backup_count.
C13_RotatesBySize ==
    [][rOp' = "emit" =>
          /\ rActive + rLen' > Val(rMax) =>
                /\ 1 \in DOMAIN rRing'
                /\ rRing'[1] = rActive
                /\ rActive' = rLen'
          /\ Cardinality(DOMAIN rRing') <= Val(rCount)]_vars


(***************************************************************************)
(* Claims: DataHandler round trip                                          *)
(***************************************************************************)

\* C14 (as claimed): reading a file back with the reader of the format it was
\* written in does not fail and yields one table with exactly the column
\* names and the row count of the dataset written.
C14_RoundTrip ==
    dOp \in DOMAIN ReaderFormat
    => /\ ~dRaised
       /\ Len(Val(dRead).tables) = 1
       /\ Val(dRead).tables[1] = Shape(df)

====
